---------------------------- MODULE Spec2Model ----------------------------
(* A model of starclass/BaseClassifier.py: the classification contract      *)
(* (classify), the feature cache and loader (load_star), label resolution   *)
(* (parse_labels) and the test harness (test).                              *)
EXTENDS Integers, Sequences, FiniteSets, TLC

VARIABLES
    cache,   \* the features_cache directory: priority -> content of features-<priority>.pickle
    writes,  \* per priority, the number of savePickle calls of this run
    call,    \* the last load_star call: its inputs, what it did, what it returned
    cl,      \* the last classify call
    pl,      \* the last parse_labels call
    tst      \* the running test() call: its frame (locals, position) and its effects

vars == <<cache, writes, call, cl, pl, tst>>

-----------------------------------------------------------------------------
(* Bounds of the model.                                                     *)

Den == 2          \* probabilities are the rationals n/Den
MaxRes == 2       \* entries in a mapping returned by do_classify
MaxLabels == 2    \* labels carried by one star
MaxStars == 2     \* label lists handed to one parse_labels call
MaxTest == 3      \* test cases in a split

-----------------------------------------------------------------------------
(* The class taxonomies.  An Enum member is the pair <<enumeration, name>>: *)
(* members of different enumerations are never equal and never contained   *)
(* in each other's class, whatever their names.                             *)

L1Names == {"SOLARLIKE", "ECLIPSE", "RRLYR_CEPHEID", "GDOR_SPB", "DSCT_BCEP",
            "CONTACT_ROT", "APERIODIC", "CONSTANT", "RAPID"}

L2Names == {"SOLARLIKE", "ECLIPSE", "RRLYR", "CEPHEID"}

Member(enum, name) == <<enum, name>>

StellarClasses == {Member("StellarClasses", n) : n \in L1Names}

StellarClassesLevel2 == {Member("StellarClassesLevel2", n) : n \in L2Names}

SC(name) == Member("StellarClasses", name)

SC2(name) == Member("StellarClassesLevel2", name)

\* member.value: the enumerations are @enum.unique-style, one value per member
ValueOf(member) == <<"value", member[1], member[2]>>

Levels == {"L1", "L2"}

\* self.StellarClasses, chosen by the level at construction
ActiveClasses(level) == IF level = "L1" THEN StellarClasses ELSE StellarClassesLevel2

-----------------------------------------------------------------------------
(* Classifier objects.  features_cache is None or the one cache directory.  *)

ClassifierKeyOf == [BaseClassifier |-> "base", RFGCClassifier |-> "rfgc",
                    SLOSHClassifier |-> "slosh", XGBClassifier |-> "xgb",
                    MetaClassifier |-> "meta"]

NewClassifier(cls, features_cache, level) ==
    [classifier_key |-> ClassifierKeyOf[cls],
     level          |-> level,
     features_cache |-> features_cache]

CacheOptions == {"None", "dir"}

-----------------------------------------------------------------------------
(* Floating point values: a number n/Den, or NaN.  Every ordered comparison *)
(* with NaN is false.                                                       *)

Num(n) == [nan |-> FALSE, n |-> n]

NaN == [nan |-> TRUE, n |-> 0]

FloatLt(a, b) == ~a.nan /\ ~b.nan /\ a.n < b.n

FloatGt(a, b) == ~a.nan /\ ~b.nan /\ a.n > b.n

Zero == Num(0)

One == Num(Den)

InUnitInterval(v) == ~v.nan /\ 0 <= v.n /\ v.n <= Den

-----------------------------------------------------------------------------
(* classify.  A mapping is the sequence of its (key, value) items in        *)
(* iteration order, with distinct keys.                                     *)

UnknownClass == <<"ValueError", "Classifier returned unknown stellar class">>

InvalidProbability == <<"ValueError", "Classifier should return probability between 0 and 1.">>

NotImplemented == <<"NotImplementedError", "">>

Returned == <<"return", "">>

KeysOf(res) == {res[i][1] : i \in 1..Len(res)}

\* the loop without the membership test
NoKeyCheck(self, key) == FALSE

\* line 138: key not in self.StellarClasses
KeyRejected(self, key) == key \notin ActiveClasses(self.level)

\* line 140: value < 0 or value > 1
ValueRejected(value) == FloatLt(value, Zero) \/ FloatGt(value, One)

\* lines 137-141: the first offending item, in iteration order, decides the error
RECURSIVE CheckResults(_, _, _)
CheckResults(self, res, i) ==
    IF i > Len(res) THEN Returned
    ELSE IF KeyRejected(self, res[i][1]) THEN UnknownClass
    ELSE IF ValueRejected(res[i][2]) THEN InvalidProbability
    ELSE CheckResults(self, res, i + 1)

\* lines 135-143: the outcome of classify when do_classify produced res
ClassifyOutcome(self, res) == CheckResults(self, res, 1)

\* lines 145-160: the base class has no do_classify
HasDoClassify(self) == self.classifier_key # "base"

NoCall == [op |-> "none", pc |-> "idle"]

\* an empty dict
EmptyBundle == [k \in {} |-> 0]

\* the priorities of the tasks of a run
Priorities == {1, 2}

\* the keys and values do_classify may produce: keys are Enum members, of the
\* active enumeration or of the other one
KeyPool == {SC("ECLIPSE"), SC("SOLARLIKE"), SC2("ECLIPSE"), SC2("RRLYR")}

ValuePool == {Num(n) : n \in -1..(Den + 1)} \cup {NaN}

Items == KeyPool \X ValuePool

ResultMaps ==
    {res \in UNION {[1..n -> Items] : n \in 0..MaxRes} :
        \A i, j \in 1..Len(res) : i # j => res[i][1] # res[j][1]}

ClassifyClassifiers ==
    {NewClassifier(c, "None", l) : c \in {"BaseClassifier", "RFGCClassifier"}, l \in Levels}

\* lines 116-143, with the variant's do_classify producing res
Classify ==
    /\ cl.op = "pending"
    /\ HasDoClassify(cl.self)
    /\ \E outcome \in {ClassifyOutcome(cl.self, cl.res)} :
          cl' = [cl EXCEPT !.op = "classify", !.outcome = outcome,
                           !.ret = IF outcome = Returned THEN cl.res ELSE <<>>]
    /\ UNCHANGED <<cache, writes, call, pl, tst>>

\* lines 135 and 160: classify on the base class propagates NotImplementedError
ClassifyBase ==
    /\ cl.op = "pending"
    /\ ~HasDoClassify(cl.self)
    /\ cl' = [cl EXCEPT !.op = "classify", !.outcome = NotImplemented]
    /\ UNCHANGED <<cache, writes, call, pl, tst>>

InitIdle ==
    /\ cache = EmptyBundle
    /\ writes = [p \in Priorities |-> 0]
    /\ call = NoCall
    /\ cl = NoCall
    /\ pl = NoCall
    /\ tst = NoCall

\* a classifier and the mapping its do_classify is about to produce
InitClassify ==
    /\ cache = EmptyBundle
    /\ writes = [p \in Priorities |-> 0]
    /\ call = NoCall
    /\ cl \in {[op |-> "pending", pc |-> "idle", self |-> self, res |-> res,
                outcome |-> Returned, ret |-> <<>>] :
                  self \in ClassifyClassifiers, res \in ResultMaps}
    /\ pl = NoCall
    /\ tst = NoCall

NextClassify == Classify \/ ClassifyBase

SpecClassify == InitClassify /\ [][NextClassify]_vars


-----------------------------------------------------------------------------
(* Claims about classify.                                                   *)

ClassifyDone == cl.op = "classify" /\ HasDoClassify(cl.self)

ForeignAt(i) == cl.res[i][1] \notin ActiveClasses(cl.self.level)

OutOfRangeAt(i) == FloatLt(cl.res[i][2], Zero) \/ FloatGt(cl.res[i][2], One)

\* C1 as stated: every returned mapping has only keys of the taxonomy of the
\* classifier's level, and a mapping with any key outside that taxonomy makes
\* classify fail with UnknownClass.
C1_ForeignKeyRaisesUnknownClass ==
    ClassifyDone =>
        /\ cl.outcome = Returned => KeysOf(cl.ret) \subseteq ActiveClasses(cl.self.level)
        /\ (\E i \in 1..Len(cl.res) : ForeignAt(i)) => cl.outcome = UnknownClass

\* C1 amended: every returned mapping has only keys of the taxonomy of the
\* classifier's level; a mapping with any key outside it makes classify fail
\* and return nothing, with UnknownClass unless an item earlier in iteration
\* order than the first foreign key has a probability below 0 or above 1, and
\* then with InvalidProbability.
C1_ForeignKeyFails ==
    ClassifyDone =>
        /\ cl.outcome = Returned =>
              /\ cl.ret = cl.res
              /\ KeysOf(cl.ret) \subseteq ActiveClasses(cl.self.level)
        /\ \A i \in 1..Len(cl.res) :
              (ForeignAt(i) /\ \A j \in 1..(i - 1) : ~ForeignAt(j)) =>
                  /\ cl.ret = <<>>
                  /\ cl.outcome =
                        IF \E j \in 1..(i - 1) : OutOfRangeAt(j)
                        THEN InvalidProbability ELSE UnknownClass

\* a foreign key after a valid item is rejected with UnknownClass
C1_Witness ==
    /\ ClassifyDone
    /\ Len(cl.res) = 2
    /\ ~ForeignAt(1) /\ ~OutOfRangeAt(1) /\ ForeignAt(2)
    /\ cl.outcome = UnknownClass

\* C2: every probability of a mapping that classify returns lies in [0,1].
C2_ReturnedProbabilitiesInUnitInterval ==
    (ClassifyDone /\ cl.outcome = Returned) =>
        \A i \in 1..Len(cl.ret) : InUnitInterval(cl.ret[i][2])


-----------------------------------------------------------------------------
(* parse_labels.  labels is an iterator of label lists; the loop consumes   *)
(* one list per iteration and appends one value to fitlabels.               *)

Contains(lbl, member) == \E i \in 1..Len(lbl) : lbl[i] = member

\* the chain with the CONTACT_ROT and DSCT_BCEP branches exchanged
ResolveLabelSwapped(lbl) ==
    IF Len(lbl) > 1 THEN
        IF Contains(lbl, SC("ECLIPSE")) THEN ValueOf(SC("ECLIPSE"))
        ELSE IF Contains(lbl, SC("RRLYR_CEPHEID")) THEN ValueOf(SC("RRLYR_CEPHEID"))
        ELSE IF Contains(lbl, SC("DSCT_BCEP")) THEN ValueOf(SC("DSCT_BCEP"))
        ELSE IF Contains(lbl, SC("CONTACT_ROT")) THEN ValueOf(SC("CONTACT_ROT"))
        ELSE IF Contains(lbl, SC("GDOR_SPB")) THEN ValueOf(SC("GDOR_SPB"))
        ELSE IF Contains(lbl, SC("SOLARLIKE")) THEN ValueOf(SC("SOLARLIKE"))
        ELSE ValueOf(lbl[1])
    ELSE ValueOf(lbl[1])

\* lines 380-396: the value appended for one label list
ResolveLabel(lbl) ==
    IF Len(lbl) > 1 THEN
        IF Contains(lbl, SC("ECLIPSE")) THEN ValueOf(SC("ECLIPSE"))
        ELSE IF Contains(lbl, SC("RRLYR_CEPHEID")) THEN ValueOf(SC("RRLYR_CEPHEID"))
        ELSE IF Contains(lbl, SC("CONTACT_ROT")) THEN ValueOf(SC("CONTACT_ROT"))
        ELSE IF Contains(lbl, SC("DSCT_BCEP")) THEN ValueOf(SC("DSCT_BCEP"))
        ELSE IF Contains(lbl, SC("GDOR_SPB")) THEN ValueOf(SC("GDOR_SPB"))
        ELSE IF Contains(lbl, SC("SOLARLIKE")) THEN ValueOf(SC("SOLARLIKE"))
        ELSE ValueOf(lbl[1])
    ELSE ValueOf(lbl[1])

\* the classes a ground-truth label list draws from: the six distinguished
\* classes and two others
LabelPool == {SC(n) : n \in {"ECLIPSE", "RRLYR_CEPHEID", "CONTACT_ROT", "DSCT_BCEP",
                             "GDOR_SPB", "SOLARLIKE", "APERIODIC", "CONSTANT"}}

LabelLists == UNION {[1..n -> LabelPool] : n \in 1..MaxLabels}

\* line 376: fitlabels = []
ParseLabelsCall ==
    /\ pl.op = "parse_labels" => pl.pc = "done"
    /\ pl' = [op |-> "parse_labels", pc |-> "loop", n |-> 0, lbl |-> <<>>,
              fitlabels |-> <<>>, ret |-> <<>>]
    /\ UNCHANGED <<cache, writes, call, cl, tst>>

\* lines 377-396: one iteration, the iterator yielding lbl
ParseLabelsStep(lbl) ==
    /\ pl.op = "parse_labels" /\ pl.pc = "loop"
    /\ pl.n < MaxStars
    /\ pl' = [pl EXCEPT !.n = pl.n + 1, !.lbl = lbl,
                        !.fitlabels = Append(pl.fitlabels, ResolveLabel(lbl))]
    /\ UNCHANGED <<cache, writes, call, cl, tst>>

\* line 397: the iterator is exhausted, return np.array(fitlabels)
ParseLabelsReturn ==
    /\ pl.op = "parse_labels" /\ pl.pc = "loop"
    /\ pl' = [pl EXCEPT !.pc = "done", !.ret = pl.fitlabels]
    /\ UNCHANGED <<cache, writes, call, cl, tst>>

NextLabels ==
    \/ ParseLabelsCall
    \/ \E lbl \in LabelLists : ParseLabelsStep(lbl)
    \/ ParseLabelsReturn

SpecLabels == InitIdle /\ [][NextLabels]_vars

-----------------------------------------------------------------------------
(* Claims about parse_labels.                                               *)

PriorityOrder == <<"ECLIPSE", "RRLYR_CEPHEID", "CONTACT_ROT", "DSCT_BCEP",
                   "GDOR_SPB", "SOLARLIKE">>

Occurring(lbl) == {k \in 1..Len(PriorityOrder) : Contains(lbl, SC(PriorityOrder[k]))}

\* the label the claim assigns to one label list
ClaimedLabel(lbl) ==
    IF Len(lbl) > 1 /\ Occurring(lbl) # {}
    THEN ValueOf(SC(PriorityOrder[CHOOSE k \in Occurring(lbl) :
                                     \A m \in Occurring(lbl) : k <= m]))
    ELSE ValueOf(lbl[1])

\* C7: every iteration of parse_labels appends exactly one value, the one for
\* the label list it consumed: the first class of the order ECLIPSE >
\* RRLYR_CEPHEID > CONTACT_ROT > DSCT_BCEP > GDOR_SPB > SOLARLIKE occurring
\* anywhere in a list of more than one label, else the first listed label; the
\* values already appended stay, in order, and the call returns them.
C7_ParseLabels ==
    [][/\ (pl.op = "parse_labels" /\ pl'.op = "parse_labels" /\ pl'.n = pl.n + 1) =>
              pl'.fitlabels = Append(pl.fitlabels, ClaimedLabel(pl'.lbl))
       /\ (pl.op = "parse_labels" /\ pl'.op = "parse_labels" /\ pl'.pc = "done") =>
              /\ pl'.ret = pl.fitlabels
              /\ Len(pl'.ret) = pl.n
      ]_vars

\* a second list whose distinguished class is listed after another label
C7_Witness ==
    /\ pl.op = "parse_labels" /\ pl.pc = "done" /\ pl.n = 2
    /\ pl.lbl = <<SC("SOLARLIKE"), SC("GDOR_SPB")>>
    /\ pl.ret = <<ValueOf(SC("APERIODIC")), ValueOf(SC("GDOR_SPB"))>>


-----------------------------------------------------------------------------
(* load_star.  A file name is the sequence of its stem and its dot-led      *)
(* components; a bundle (a dict) is a function from keys to values; the     *)
(* cache directory maps the priorities that have a file to its content.     *)

IsSuffix(suffix, fname) ==
    /\ Len(suffix) <= Len(fname)
    /\ \A i \in 1..Len(suffix) : fname[Len(fname) - Len(suffix) + i] = suffix[i]

\* fname.endswith(suffix)
EndsWith(fname, suffix) == IsSuffix(suffix, fname)

\* line 263
IsTextFormat(fname) ==
    \/ EndsWith(fname, <<".noisy">>) \/ EndsWith(fname, <<".sysnoise">>)
    \/ EndsWith(fname, <<".txt">>) \/ EndsWith(fname, <<".clean">>)

\* line 287
IsFitsFormat(fname) == EndsWith(fname, <<".fits">>) \/ EndsWith(fname, <<".fits", ".gz">>)

\* the observation files of a run: two that load, one with an unsupported
\* suffix, one that does not exist, one whose light curve fails in
\* calc_features
TextFile == <<"tess", ".txt">>

FitsFile == <<"tess", ".fits", ".gz">>

DatFile == <<"tess", ".txt", ".dat">>

MissingFile == <<"gone", ".noisy">>

BrokenFile == <<"empty", ".fits">>

FileNames == {TextFile, FitsFile, DatFile, MissingFile, BrokenFile}

\* np.loadtxt and fits.open raise on a file that is not there
Readable(fname) == fname # MissingFile

\* hdu[0].header.get('TICID')
HeaderTICID(fname) == 0

\* lines 264-309: the TessLightCurve built from the file
LightCurve(task, fname) ==
    [file |-> fname,
     targetid |-> IF IsTextFormat(fname) THEN task["starid"] ELSE HeaderTICID(fname)]

\* powerspectrum(lc), freqextr(lightcurve) and FliPer(psd) are deterministic
powerspectrum(lc) == <<"powerspectrum", lc>>

freqextr(lightcurve) == [freq1 |-> <<"freqextr", lightcurve>>]

FliPer(psd) == [Fp07 |-> <<"FliPer", psd>>]

\* a light curve the feature extraction fails on
Computable(lightcurve) == lightcurve.file # BrokenFile

\* lines 341-367
calc_features(lightcurve) ==
    FliPer(powerspectrum(lightcurve)) @@ freqextr(lightcurve) @@
    [lightcurve |-> lightcurve, powerspectrum |-> powerspectrum(lightcurve)]

OptionalKeys == {"tmag", "variance", "rms_hour", "ptp", "other_classifiers"}

\* the loop of line 331 without the test of line 332
AttachAllOptional(features, task) ==
    LET mine == {"priority", "starid"} \cup OptionalKeys
    IN  [k \in DOMAIN features \cup mine |->
            IF k \in mine THEN (IF k \in DOMAIN task THEN task[k] ELSE 0) ELSE features[k]]

\* lines 329-333: priority, starid and the optional fields present on the task
AttachTaskFields(features, task) ==
    LET mine == {"priority", "starid"} \cup (OptionalKeys \cap DOMAIN task)
    IN  [k \in DOMAIN features \cup mine |-> IF k \in mine THEN task[k] ELSE features[k]]

\* the tasks of a run: every task carries priority, starid and a field that
\* load_star does not copy; tmag comes with either of two values
StarIdOf(priority) == 100 + priority

NewTask(priority, optional, tmag) ==
    [k \in {"priority", "starid", "camera"} \cup optional |->
        CASE k = "priority" -> priority
          [] k = "starid" -> StarIdOf(priority)
          [] k = "tmag" -> tmag
          [] OTHER -> 1]

Tasks ==
    {NewTask(p, {}, 8) : p \in Priorities} \cup
    {NewTask(p, {"tmag"}, m) : p \in Priorities, m \in {8, 9}} \cup
    {NewTask(p, OptionalKeys, 8) : p \in Priorities}

LoadClassifiers ==
    {NewClassifier("RFGCClassifier", f, "L1") : f \in CacheOptions} \cup
    {NewClassifier("MetaClassifier", "dir", "L1")}

InvalidFormat == <<"ValueError", "Invalid file format">>

ReadFailure == <<"OSError", "">>

FeatureFailure == <<"Exception", "calc_features">>

\* line 260
IsMeta(self) == self.classifier_key = "meta"

\* lines 317 and 336: self.features_cache is set
CacheConfigured(self) == self.features_cache # "None"

\* a lookup under a file name that never exists
NoCacheFile(files, task) == FALSE

\* line 319: os.path.exists(features_file)
CacheFileExists(files, task) == task["priority"] \in DOMAIN files

\* line 323: not features
IsEmpty(features) == DOMAIN features = {}

\* line 336 without save_to_cache
SaveAlways(self, save_to_cache) == CacheConfigured(self)

\* line 336: save_to_cache and self.features_cache
ShouldSave(self, save_to_cache) == save_to_cache /\ CacheConfigured(self)

\* lines 317-320: the features after the cache lookup
CacheLookup(self, files, task) ==
    IF CacheConfigured(self) /\ CacheFileExists(files, task)
    THEN files[task["priority"]]
    ELSE EmptyBundle

\* a raise that savePickle precedes
FailedAfterSave(outcome) ==
    [outcome |-> outcome, ret |-> EmptyBundle, files |-> <<>>,
     parsed |-> FALSE, looked |-> FALSE, computed |-> FALSE, wrote |-> TRUE]

\* a raise (lines 264, 288, 312, 325) leaves load_star before line 337
Failed(outcome) ==
    [outcome |-> outcome, ret |-> EmptyBundle, files |-> <<>>,
     parsed |-> FALSE, looked |-> FALSE, computed |-> FALSE, wrote |-> FALSE]

\* lines 254-339: what load_star does with the cache directory holding files
LoadStarRun(self, files, task, fname) ==
    IF IsMeta(self) THEN
        [Failed(Returned) EXCEPT !.ret = AttachTaskFields(EmptyBundle, task)]
    ELSE IF ~IsTextFormat(fname) /\ ~IsFitsFormat(fname) THEN Failed(InvalidFormat)
    ELSE IF ~Readable(fname) THEN Failed(ReadFailure)
    ELSE
        LET lightcurve == LightCurve(task, fname)
            cached == CacheLookup(self, files, task)
            looked == CacheConfigured(self) /\ CacheFileExists(files, task)
            save_to_cache == IsEmpty(cached)
        IN  IF save_to_cache /\ ~Computable(lightcurve)
            THEN [Failed(FeatureFailure) EXCEPT !.parsed = TRUE, !.looked = looked,
                                                !.computed = TRUE]
            ELSE
                LET features == AttachTaskFields(
                        IF save_to_cache THEN calc_features(lightcurve) ELSE cached, task)
                IN  [outcome |-> Returned, ret |-> features, files |-> <<>>,
                     parsed |-> TRUE, looked |-> looked, computed |-> save_to_cache,
                     wrote |-> ShouldSave(self, save_to_cache)]

\* load_star(task, fname) on classifier self
LoadStar(self, task, fname) ==
    \E run \in {LoadStarRun(self, cache, task, fname)}, p \in {task["priority"]} :
        /\ call' = [op |-> "load_star", self |-> self, task |-> task, fname |-> fname,
                    outcome |-> run.outcome, ret |-> run.ret, parsed |-> run.parsed,
                    looked |-> run.looked, computed |-> run.computed, wrote |-> run.wrote,
                    existed |-> p \in DOMAIN cache]
        /\ cache' = IF run.wrote THEN (p :> run.ret) @@ cache ELSE cache
        /\ writes' = IF run.wrote THEN [writes EXCEPT ![p] = @ + 1] ELSE writes
        /\ UNCHANGED <<cl, pl, tst>>

\* what an earlier run left in the cache directory: nothing, an empty bundle,
\* or the bundle that run computed and saved
EarlierBundle(p) ==
    AttachTaskFields(calc_features(LightCurve(NewTask(p, {"tmag"}, 8), TextFile)),
                     NewTask(p, {"tmag"}, 8))

StartingCaches ==
    {files \in UNION {[ps -> {EmptyBundle} \cup {EarlierBundle(p) : p \in Priorities}] :
                         ps \in SUBSET Priorities} :
        \A p \in DOMAIN files : IsEmpty(files[p]) \/ files[p] = EarlierBundle(p)}

InitLoad ==
    /\ cache \in StartingCaches
    /\ writes = [p \in Priorities |-> 0]
    /\ call = NoCall
    /\ cl = NoCall
    /\ pl = NoCall
    /\ tst = NoCall

NextLoad == \E self \in LoadClassifiers, task \in Tasks, fname \in FileNames :
                LoadStar(self, task, fname)

SpecLoad == InitLoad /\ [][NextLoad]_vars


-----------------------------------------------------------------------------
(* Claims about load_star.                                                  *)

Loaded == call.op = "load_star"

CachingCall(c) == c.op = "load_star" /\ ~IsMeta(c.self) /\ CacheConfigured(c.self)

\* C3 as stated: the cache file of a priority is written at most once in a
\* run, and a call that loads from an existing cache file writes nothing.
C3_HitNeverWrites ==
    /\ \A p \in Priorities : writes[p] <= 1
    /\ (Loaded /\ call.looked) => ~call.wrote

\* C3 amended: the cache file of a priority is written at most once in a run,
\* and a call that loads a non-empty bundle from an existing cache file leaves
\* the cache directory as it was.
C3_AtMostOneWrite ==
    /\ [](\A p \in Priorities : writes[p] <= 1)
    /\ [][(/\ call'.op = "load_star" /\ call'.looked
           /\ ~IsEmpty(cache[call'.task["priority"]])) =>
              (~call'.wrote /\ cache' = cache /\ writes' = writes)]_vars

\* both cases in one run: one call computed and wrote the file of a priority,
\* the latest call loaded that file
C3_Witness ==
    /\ CachingCall(call) /\ call.looked /\ ~call.computed /\ ~call.wrote
    /\ writes[call.task["priority"]] = 1

\* C4 as stated: with a cache directory and a loaded light curve, a non-meta
\* load_star calls calc_features exactly when the task's cache file does not
\* exist.
C4_RecomputeIffNoFile ==
    (CachingCall(call) /\ call.parsed) => (call.computed <=> ~call.existed)

\* C4 amended: with a cache directory and a loaded light curve, a non-meta
\* load_star calls calc_features exactly when the task's cache file does not
\* exist or holds an empty bundle; a file holding a non-empty bundle is what
\* the returned bundle is built from, whatever else it holds.
C4_RecomputeIffNoBundle ==
    [][(CachingCall(call') /\ call'.parsed) =>
          LET p == call'.task["priority"]
              found == p \in DOMAIN cache /\ ~IsEmpty(cache[p])
          IN  /\ call'.computed <=> ~found
              /\ found => call'.ret = AttachTaskFields(cache[p], call'.task)
      ]_vars

\* a file left by an earlier run is used instead of recomputing
C4_Witness ==
    /\ CachingCall(call) /\ call.parsed /\ call.existed /\ ~call.computed
    /\ writes[call.task["priority"]] = 0
    /\ call.ret["lightcurve"] # LightCurve(call.task, call.fname)

\* C5: a load_star call that ends in an error leaves every cache file as it
\* was, and a file that changes holds the bundle returned by a call whose
\* feature computation completed.
C5_FailureWritesNothing ==
    [][/\ (call'.op = "load_star" /\ call'.outcome # Returned) =>
              (cache' = cache /\ writes' = writes)
       /\ cache' # cache =>
              /\ call'.outcome = Returned /\ call'.computed
              /\ Computable(LightCurve(call'.task, call'.fname))
              /\ cache' = (call'.task["priority"] :> call'.ret) @@ cache
      ]_vars

\* a failed feature computation after a cache miss on a caching classifier
C5_Witness ==
    /\ CachingCall(call) /\ call.outcome = FeatureFailure
    /\ ~call.existed /\ call.task["priority"] \notin DOMAIN cache

\* C6: on the meta variant load_star never fails, loads no light curve, computes
\* no features, neither reads nor writes the cache, and returns exactly
\* priority, starid and the optional fields present on the task, with the
\* task's values.
C6_MetaSkipsEverything ==
    [][(call'.op = "load_star" /\ IsMeta(call'.self)) =>
          /\ call'.outcome = Returned
          /\ ~call'.parsed /\ ~call'.looked /\ ~call'.computed /\ ~call'.wrote
          /\ cache' = cache /\ writes' = writes
          /\ DOMAIN call'.ret =
                {"priority", "starid"} \cup (OptionalKeys \cap DOMAIN call'.task)
          /\ \A k \in DOMAIN call'.ret : call'.ret[k] = call'.task[k]
      ]_vars

\* a meta call on a file with an unsupported suffix, for a task without optional
\* fields whose priority has a cache file
C6_Witness ==
    /\ Loaded /\ IsMeta(call.self) /\ call.fname = DatFile
    /\ DOMAIN call.ret = {"priority", "starid"}
    /\ call.existed

\* the bundle a cache miss returns for (task, fname)
MissBundle(task, fname) == AttachTaskFields(calc_features(LightCurve(task, fname)), task)

\* C10: a cache hit on a file written earlier in the run, from the same light
\* curve, returns the bundle a cache miss would return for the task.
C10_CacheTransparency ==
    (/\ CachingCall(call) /\ call.outcome = Returned
     /\ call.looked /\ ~call.computed
     /\ writes[call.task["priority"]] >= 1
     /\ call.ret["lightcurve"] = LightCurve(call.task, call.fname)) =>
        call.ret = MissBundle(call.task, call.fname)


-----------------------------------------------------------------------------
(* test.  The frame of a test() call: its arguments, its position, y_pred,  *)
(* and what it did: the validated results, the records handed to save_func, *)
(* the number of classify calls, the figures saved.                         *)

STATUS == [UNKNOWN |-> 0, STARTED |-> 6, OK |-> 1, ERROR |-> 2, WARNING |-> 3,
           ABORT |-> 4, SKIPPED |-> 5]

\* line 187 with < for <=
RunsOnZero(testfraction) == testfraction < 0

\* line 187: tset.testfraction <= 0
NoTesting(testfraction) == testfraction <= 0

\* line 192: all_classes = [lbl.value for lbl in StellarClasses]
all_classes == {ValueOf(c) : c \in StellarClasses}

\* max(iterable, key=...): an item replaces the running maximum when its key
\* compares greater
RECURSIVE MaxFrom(_, _, _)
MaxFrom(res, i, best) ==
    IF i > Len(res) THEN best
    ELSE IF FloatGt(res[i][2], res[best][2]) THEN MaxFrom(res, i + 1, i)
    ELSE MaxFrom(res, i + 1, best)

\* line 208: max(res['starclass_results'], key=...).value, of a non-empty mapping
Prediction(res) == ValueOf(res[MaxFrom(res, 2, 1)][1])

\* lines 198-205: the record of one test case
ResultRecord(self, features, results) ==
    [priority |-> features["priority"], classifier |-> self.classifier_key,
     status |-> <<"STATUS", STATUS["OK"]>>, starclass_results |-> results]

\* line 219: [lbl[0].value for lbl in tset.labels_test(level=self.level)]
FirstLabels(labels) == [i \in 1..Len(labels) |-> ValueOf(labels[i][1])]

\* sklearn accuracy_score(y_true, y_pred): the fraction of equal positions
accuracy_score(y_true, y_pred) ==
    [num |-> Cardinality({i \in 1..Len(y_true) : y_true[i] = y_pred[i]}),
     den |-> Len(y_true)]

\* sklearn confusion_matrix(y_true, y_pred, labels): rows true, columns predicted
confusion_matrix(y_true, y_pred, labels) ==
    [t \in labels, p \in labels |->
        Cardinality({i \in 1..Len(y_true) : y_true[i] = t /\ y_pred[i] = p})]

\* line 232: the file name of the figure
FigureName(self, tset) == <<"confusion_matrix", tset.key, self.level, self.classifier_key>>

\* the training-set collaborator: testfraction (in units of 1/Den), the test
\* features (one bundle per test case, in split order) and the parallel labels
ClassA == SC("ECLIPSE")

ClassB == SC("SOLARLIKE")

SplitPriority(i) == 50 - i

TestLabelLists == {<<ClassA>>, <<ClassB>>, <<ClassB, ClassA>>}

TrainingSets ==
    {[key |-> "keplerq9", testfraction |-> f, labels |-> l,
      features |-> [i \in 1..Len(l) |-> [priority |-> SplitPriority(i)]]] :
        f \in {-1, 0, 1}, l \in UNION {[1..n -> TestLabelLists] : n \in 1..MaxTest}}

\* what the variant under test may produce for a test case
AlwaysA == <<<<ClassA, One>>, <<ClassB, Zero>>>>

TestMaps ==
    {AlwaysA,
     <<<<ClassB, Num(1)>>, <<ClassA, Num(1)>>>>,
     <<<<ClassA, Zero>>, <<ClassB, One>>>>,
     <<<<ClassA, NaN>>, <<ClassB, One>>>>,
     <<>>,
     <<<<ClassA, Num(Den + 1)>>>>}

TestClassifiers == {NewClassifier(c, "None", "L1") : c \in {"BaseClassifier", "XGBClassifier"}}

\* a run makes one test() call
TestIdle == tst.op = "none"

NewFrame(self, tset, save) ==
    [op |-> "test", pc |-> "loop", self |-> self, tset |-> tset, save |-> save,
     y_pred |-> <<>>, results |-> <<>>, saved |-> <<>>, classified |-> 0,
     consumed |-> 0, outcome |-> Returned, acc |-> [num |-> 0, den |-> 0],
     cf |-> <<>>, figures |-> {}]

\* lines 187-189: a split without test fraction
TestNoop(self, tset, save) ==
    /\ TestIdle
    /\ NoTesting(tset.testfraction)
    /\ tst' = [NewFrame(self, tset, save) EXCEPT !.pc = "returned"]
    /\ UNCHANGED <<cache, writes, call, cl, pl>>

\* lines 192-196: entering the loop
TestCall(self, tset, save) ==
    /\ TestIdle
    /\ ~NoTesting(tset.testfraction)
    /\ tst' = NewFrame(self, tset, save)
    /\ UNCHANGED <<cache, writes, call, cl, pl>>

InLoop == tst.op = "test" /\ tst.pc = "loop" /\ tst.consumed < Len(tst.tset.labels)

\* lines 196-214: one test case, the variant's do_classify producing res
TestCase(res) ==
    /\ InLoop
    /\ HasDoClassify(tst.self)
    /\ ClassifyOutcome(tst.self, res) = Returned
    /\ res # <<>>
    /\ \E features \in {tst.tset.features[tst.consumed + 1]} :
          tst' = [tst EXCEPT
                    !.consumed = @ + 1,
                    !.classified = @ + 1,
                    !.results = Append(@, res),
                    !.y_pred = Append(@, Prediction(res)),
                    !.saved = IF tst.save
                              THEN Append(@, ResultRecord(tst.self, features, res))
                              ELSE @]
    /\ UNCHANGED <<cache, writes, call, cl, pl>>

\* lines 205 and 208: classify raises, or max() raises on an empty mapping
TestCaseRaises(res) ==
    /\ InLoop
    /\ HasDoClassify(tst.self)
    /\ ClassifyOutcome(tst.self, res) # Returned \/ res = <<>>
    /\ tst' = [tst EXCEPT
                 !.pc = "raised",
                 !.consumed = @ + 1,
                 !.classified = @ + 1,
                 !.outcome = IF res = <<>>
                             THEN <<"ValueError", "max() arg is an empty sequence">>
                             ELSE ClassifyOutcome(tst.self, res)]
    /\ UNCHANGED <<cache, writes, call, cl, pl>>

\* lines 205 and 160: the base class has nothing to test
TestCaseBase ==
    /\ InLoop
    /\ ~HasDoClassify(tst.self)
    /\ tst' = [tst EXCEPT !.pc = "raised", !.consumed = @ + 1, !.classified = @ + 1,
                          !.outcome = NotImplemented]
    /\ UNCHANGED <<cache, writes, call, cl, pl>>

\* lines 216-233: the split is exhausted: score, plot, return
TestScore ==
    /\ tst.op = "test" /\ tst.pc = "loop" /\ tst.consumed = Len(tst.tset.labels)
    /\ \E labels_test \in {FirstLabels(tst.tset.labels)} :
          tst' = [tst EXCEPT
                    !.pc = "returned",
                    !.acc = accuracy_score(labels_test, tst.y_pred),
                    !.cf = confusion_matrix(labels_test, tst.y_pred, all_classes),
                    !.figures = @ \cup {FigureName(tst.self, tst.tset)}]
    /\ UNCHANGED <<cache, writes, call, cl, pl>>

NextTest ==
    \/ \E self \in TestClassifiers, tset \in TrainingSets, save \in BOOLEAN :
          \/ TestNoop(self, tset, save)
          \/ TestCall(self, tset, save)
    \/ \E res \in TestMaps : TestCase(res) \/ TestCaseRaises(res)
    \/ TestCaseBase
    \/ TestScore

SpecTest == InitIdle /\ [][NextTest]_vars


-----------------------------------------------------------------------------
(* Claims about test.                                                       *)

Scored == tst.op = "test" /\ tst.pc = "returned" /\ tst.tset.testfraction > 0

ProbabilityOf(res, i) == res[i][2]

\* the items of res with the highest probability: none has a higher one
Highest(res) ==
    {i \in 1..Len(res) : \A j \in 1..Len(res) :
        ~FloatGt(ProbabilityOf(res, j), ProbabilityOf(res, i)) /\ ~ProbabilityOf(res, i).nan}

\* the class the claim predicts: the first item, in iteration order, among
\* those with the highest probability
ClaimedPrediction(res) ==
    ValueOf(res[CHOOSE i \in Highest(res) : \A j \in Highest(res) : i <= j][1])

Matches(labels, y_pred) ==
    {i \in 1..Len(labels) : y_pred[i] = ValueOf(labels[i][1])}

ScoredAsClaimed ==
    /\ Len(tst.y_pred) = Len(tst.tset.labels)
    /\ \A i \in 1..Len(tst.y_pred) :
          /\ Highest(tst.results[i]) # {}
          /\ tst.y_pred[i] = ClaimedPrediction(tst.results[i])
    /\ tst.acc = [num |-> Cardinality(Matches(tst.tset.labels, tst.y_pred)),
                  den |-> Len(tst.tset.labels)]
    /\ \A t \in all_classes, p \in all_classes :
          tst.cf[t, p] = Cardinality({i \in 1..Len(tst.y_pred) :
                             ValueOf(tst.tset.labels[i][1]) = t /\ tst.y_pred[i] = p})
    /\ (/\ tst.tset.labels = <<<<ClassA>>, <<ClassB>>, <<ClassA>>>>
        /\ \A i \in 1..Len(tst.results) : tst.results[i] = AlwaysA) =>
          /\ tst.acc.num * 3 = 2 * tst.acc.den
          /\ tst.cf[ValueOf(ClassA), ValueOf(ClassA)] = 2

\* C8: when test returns from a scored split, every prediction is the class
\* with the highest probability of the validated result (the first in
\* iteration order on a tie), accuracy is the number of test cases whose
\* prediction equals the star's first label over the number of test cases,
\* entry (t, p) of the confusion matrix counts the cases with label t and
\* prediction p, and labels [A, B, A] under a variant giving A 1.0 and B 0.0
\* score 2/3 with entry (A, A) equal to 2.
C8_Scoring == Scored => ScoredAsClaimed

\* the same with every validated probability a number
C8_ScoringOfNumbers ==
    (Scored /\ \A i \in 1..Len(tst.results) : \A j \in 1..Len(tst.results[i]) :
                  ~tst.results[i][j][2].nan) => ScoredAsClaimed

\* C9: a split with test fraction <= 0 makes test return at once, with no
\* classify call, no test case consumed, no save_func call and no figure;
\* otherwise save_func, when save is set, has been called once for each test
\* case processed so far, in split order, with the case's priority, the
\* classifier key, status OK and the validated result, test returns only
\* after the last test case, and never calls save_func when save is not set.
C9_NoopAndSaves ==
    tst.op = "test" =>
        /\ tst.tset.testfraction <= 0 =>
              /\ tst.pc = "returned" /\ tst.outcome = Returned
              /\ tst.classified = 0 /\ tst.consumed = 0
              /\ tst.saved = <<>> /\ tst.y_pred = <<>> /\ tst.figures = {}
        /\ tst.tset.testfraction > 0 =>
              /\ tst.saved =
                    IF tst.save
                    THEN [i \in 1..Len(tst.results) |->
                            [priority |-> tst.tset.features[i]["priority"],
                             classifier |-> tst.self.classifier_key,
                             status |-> <<"STATUS", 1>>,
                             starclass_results |-> tst.results[i]]]
                    ELSE <<>>
              /\ tst.pc = "returned" =>
                    /\ Len(tst.results) = Len(tst.tset.labels)
                    /\ tst.figures = {FigureName(tst.self, tst.tset)}

\* a split with test fraction 0 and save set returned without doing anything
C9_WitnessNoop ==
    /\ tst.op = "test" /\ tst.pc = "returned"
    /\ tst.tset.testfraction = 0 /\ tst.save /\ Len(tst.tset.labels) = 2

\* a scored split of three test cases with save set
C9_Witness ==
    /\ Scored /\ tst.save /\ Len(tst.saved) = 3
    /\ tst.saved[1]["priority"] = SplitPriority(1)
    /\ tst.saved[3]["priority"] = SplitPriority(3)
    /\ tst.saved[1]["starclass_results"] # tst.saved[3]["starclass_results"]

=============================================================================
